---- MODULE Spec2Model ----
(***************************************************************************)
(* Journey planner of Task3/Task3.py: load_underground_graph builds the    *)
(* adjacency dictionary from the rows of a CSV file, dijkstra_shortest_path*)
(* and find_shortest_path answer queries against it.                       *)
(*                                                                         *)
(* Text is modelled as sequences of integers: a raw field is a sequence of *)
(* bytes, a decoded field a sequence of Unicode code points.  A row is the *)
(* sequence of its fields (csv.reader splits on the ASCII delimiter, which *)
(* is the same byte in both encodings).                                    *)
(***************************************************************************)
EXTENDS Integers, Sequences, FiniteSets, TLC

\* ------------------------------------------------------------------ bounds
\* Largest number of data rows (after the header) of a modelled file.
MaxRows == 3
\* dijkstra_shortest_path is followed while the popped distance is at least
\* -MaxDive; Python integers are unbounded, the model stops there.
MaxDive == 3

\* ------------------------------------------------------- program constants
\* float('inf') of Task3.py:97, compared only through Less below.
INF == 999999

\* encodings_to_try = ['utf-8', 'latin-1']
encodings_to_try == <<"utf-8", "latin-1">>

\* ------------------------------------------------------------ dictionaries
EmptyDict == [x \in {} |-> 0]

Put(m, k, v) == [x \in (DOMAIN m) \cup {k} |-> IF x = k THEN v ELSE m[x]]

\* defaultdict(dict).__getitem__: a missing key is inserted with an empty dict
DefaultGet(g, k) == IF k \in DOMAIN g THEN g ELSE Put(g, k, EmptyDict)

\* graph[a][b] = t
SetEdge(g, a, b, t) ==
  LET g1 == DefaultGet(g, a) IN Put(g1, a, Put(g1[a], b, t))

\* A plausible slip: only the forward direction is stored.
InsertConnectionOneWay(g, a, b, t) == SetEdge(g, a, b, t)

\* graph[station_a][station_b] = time_cost; graph[station_b][station_a] = time_cost
InsertConnection(g, a, b, t) == SetEdge(SetEdge(g, a, b, t), b, a, t)

\* ----------------------------------------------------------------- decoding
Fail == [ok |-> FALSE, text |-> <<>>]

RECURSIVE DecodeUTF8(_)
\* bytes.decode('utf-8'), strict, for the one- and two-byte forms (lead bytes
\* 0xC2..0xDF); every other byte >= 0x80 in lead position is an error.  The
\* three- and four-byte forms do not occur in the modelled alphabet.
DecodeUTF8(bytes) ==
  IF bytes = <<>> THEN [ok |-> TRUE, text |-> <<>>]
  ELSE LET b == Head(bytes) IN
    IF b < 128 THEN
      LET r == DecodeUTF8(Tail(bytes)) IN
        IF r.ok THEN [ok |-> TRUE, text |-> <<b>> \o r.text] ELSE Fail
    ELSE IF b >= 194 /\ b <= 223 /\ Len(bytes) >= 2
            /\ bytes[2] >= 128 /\ bytes[2] <= 191 THEN
      LET r == DecodeUTF8(Tail(Tail(bytes))) IN
        IF r.ok
          THEN [ok |-> TRUE, text |-> <<(b - 192) * 64 + (bytes[2] - 128)>> \o r.text]
          ELSE Fail
    ELSE Fail

\* bytes.decode('latin-1'): every byte is the code point of the same value
DecodeLatin1(bytes) == [ok |-> TRUE, text |-> bytes]

Decode(enc, bytes) ==
  IF encodings_to_try[enc] = "utf-8" THEN DecodeUTF8(bytes) ELSE DecodeLatin1(bytes)

\* A row decodes iff each of its fields does (the reader decodes whole lines).
RowDecodes(enc, raw) == \A i \in 1..Len(raw) : Decode(enc, raw[i]).ok

DecodeRow(enc, raw) == [i \in 1..Len(raw) |-> Decode(enc, raw[i]).text]

\* ------------------------------------------------------- str.strip and int
\* str.isspace for the modelled code points: TAB, LF, CR, SPACE, NEL, NBSP
IsSpace(c) == c \in {9, 10, 13, 32, 133, 160}

RECURSIVE LStrip(_)
LStrip(s) == IF s # <<>> /\ IsSpace(Head(s)) THEN LStrip(Tail(s)) ELSE s

RECURSIVE RStrip(_)
RStrip(s) ==
  IF s # <<>> /\ IsSpace(s[Len(s)]) THEN RStrip(SubSeq(s, 1, Len(s) - 1)) ELSE s

Strip(s) == RStrip(LStrip(s))

IsDigit(c) == c >= 48 /\ c <= 57

RECURSIVE DecimalValue(_)
DecimalValue(ds) ==
  IF ds = <<>> THEN 0
  ELSE 10 * DecimalValue(SubSeq(ds, 1, Len(ds) - 1)) + (ds[Len(ds)] - 48)

\* int(time_str): optional sign, then one or more ASCII digits; anything else
\* raises ValueError (ok = FALSE).
ParseInt(s) ==
  LET t      == Strip(s)
      signed == t # <<>> /\ Head(t) \in {43, 45}
      digits == IF signed THEN Tail(t) ELSE t
  IN IF digits # <<>> /\ \A i \in 1..Len(digits) : IsDigit(digits[i])
       THEN [ok |-> TRUE,
             value |-> IF signed /\ Head(t) = 45 THEN 0 - DecimalValue(digits)
                       ELSE DecimalValue(digits)]
       ELSE [ok |-> FALSE, value |-> 0]

\* The accepted triple of a decoded row, or ok = FALSE when the row is skipped
\* (lines 42-60).
Accepted(row) ==
  IF Len(row) < 4 THEN [ok |-> FALSE]
  ELSE LET station_a == Strip(row[2])
           station_b == Strip(row[3])
           time_str  == Strip(row[4])
       IN IF station_a # <<>> /\ station_b # <<>> /\ time_str # <<>>
                                                 /\ ParseInt(time_str).ok
            THEN [ok |-> TRUE, a |-> station_a, b |-> station_b,
                  t |-> ParseInt(time_str).value]
            ELSE [ok |-> FALSE]

\* One iteration of "for row in reader" on the graph.
ProcessRow(g, row) ==
  LET r == Accepted(row) IN
    IF r.ok THEN InsertConnection(g, r.a, r.b, r.t) ELSE g

\* ------------------------------------------------------------ modelled file
\* Raw fields: "L", "A", "B", "C", " B", "A ", " ", 0xC3 0x89 (UTF-8 for
\* U+00C9; two characters in latin-1) and 0xFF (not valid UTF-8).
fL     == <<76>>
fA     == <<65>>
fB     == <<66>>
fC     == <<67>>
fBpad  == <<32, 66>>
fApad  == <<65, 32>>
fBlank == <<32>>
fE     == <<195, 137>>
fBad   == <<255>>
\* Raw time fields: "1", "3", "0", "-1", "x", " "
t1     == <<49>>
t3     == <<51>>
t0     == <<48>>
tNeg   == <<45, 49>>
tX     == <<120>>

\* The header row is skipped whatever it holds; it must only decode.
HeaderChoices == { <<fL, fA, fB, tX>>, <<fL, fBad>> }

\* The data rows a modelled file is made of.  Each modelled row is read from
\* the file in a chunk of its own (column 0 is of any length), so the rows
\* before an undecodable one are delivered to the loop before the decoder
\* fails.
RowChoices ==
  { <<fL, fA, fB, t1>>,        \* A-B 1
    <<fL, fA, fB, t3>>,        \* A-B 3
    <<fL, fA, fC, t1>>,        \* A-C 1
    <<fL, fC, fB, t1>>,        \* C-B 1
    <<fL, fBpad, fApad, t1>>,  \* " B"-"A " 1: padded, reversed
    <<fL, fC, fC, t3>>,        \* C-C 3: a loop
    <<fL, fA, fB, t0>>,        \* time 0
    <<fL, fA, fB, tNeg>>,      \* time -1
    <<fL, fA, fB, tX>>,        \* time not a number
    <<fL, fA, fB, fBlank>>,    \* time blank
    <<fL, fBlank, fB, t1>>,    \* station blank
    <<fL, fA, fB>>,            \* three fields
    <<fL, fE, fC, t1>>,        \* a station with a two-byte UTF-8 name
    <<fL, fBad, fA, t1>> }     \* a byte that is not UTF-8

\* A station name no modelled file can produce ("Z").
Unknown == <<90>>

VARIABLES
  pc,              \* where the program is
  encoding,        \* load: index into encodings_to_try of the current attempt
  file,            \* load: the raw rows of the file read so far (header first)
  pos,             \* load: index in file of the next row the reader yields
  graph,           \* graph of load_underground_graph, then underground_graph
  latest,          \* history: unordered pair -> cost of its latest accepted record
  lastRow,         \* history: the decoded row the loop processed last
  before,          \* history: the graph before that row was processed
  start_station, end_station, entry,
  distances, predecessors, priority_queue,
  current, path, result, raised,
  built,           \* history: the graph as load_underground_graph returned it
  settled,         \* history: station -> distance at its first non-stale pop
  resettled,       \* history: a settled station was popped non-stale again
  discarded        \* history: a stale entry was popped and dropped in this call

loadVars  == <<encoding, file, pos, latest, lastRow, before>>
queryVars == <<start_station, end_station, entry, distances, predecessors,
               priority_queue, current, path, result, raised, built,
               settled, resettled, discarded>>
vars == <<pc, graph, loadVars, queryVars>>

NoResult == [path |-> <<>>, total |-> 0]

Init ==
  /\ pc = "open"
  /\ encoding = 1
  /\ file = <<>>
  /\ pos = 1
  /\ graph = EmptyDict
  /\ latest = EmptyDict
  /\ lastRow = <<>>
  /\ before = EmptyDict
  /\ start_station = <<>>
  /\ end_station = <<>>
  /\ entry = "none"
  /\ distances = EmptyDict
  /\ predecessors = EmptyDict
  /\ priority_queue = {}
  /\ current = <<>>
  /\ path = <<>>
  /\ result = NoResult
  /\ raised = "none"
  /\ built = EmptyDict
  /\ settled = EmptyDict
  /\ resettled = FALSE
  /\ discarded = FALSE

\* ------------------------------------------------------ load_underground_graph
\* The handler of lines 76-80 (any other exception) is not taken by a file
\* made of the rows above: csv.reader raises only on NUL bytes and oversized
\* fields, and int() raises nothing but ValueError.  connection_count only
\* feeds the message of line 86.
\* open() raises FileNotFoundError: lines 65-68.
LoadFileNotFound ==
  /\ pc = "open" /\ encoding = 1 /\ file = <<>>
  /\ graph' = EmptyDict
  /\ pc' = "loaded"
  /\ UNCHANGED <<loadVars, queryVars>>

\* next(reader) raises StopIteration on a file without rows: lines 31-35.
LoadEmptyFile ==
  /\ pc = "open" /\ encoding = 1 /\ file = <<>>
  /\ graph' = EmptyDict
  /\ pc' = "loaded"
  /\ UNCHANGED <<loadVars, queryVars>>

\* The raw rows the reader can yield at pos: the one already read by an
\* earlier attempt, or a further row of the file.
RawAt(choices) ==
  IF pos <= Len(file) THEN {file[pos]}
  ELSE IF Len(file) <= MaxRows THEN choices ELSE {}

Reveal(raw) == IF pos <= Len(file) THEN file ELSE Append(file, raw)

\* Lines 25-37: the file opens and the header row is skipped.
LoadHeader ==
  /\ pc = "open"
  /\ \E raw \in RawAt(HeaderChoices) :
       /\ RowDecodes(encoding, raw)
       /\ file' = Reveal(raw)
  /\ pos' = 2
  /\ pc' = "rows"
  /\ UNCHANGED <<encoding, graph, latest, lastRow, before, queryVars>>

NoteAccepted(m, row) ==
  LET r == Accepted(row) IN IF r.ok THEN Put(m, {r.a, r.b}, r.t) ELSE m

\* Lines 40-60: one iteration of the loop over the rows.
LoadRow ==
  /\ pc = "rows"
  /\ \E raw \in RawAt(RowChoices) :
       /\ RowDecodes(encoding, raw)
       /\ file' = Reveal(raw)
       /\ graph' = ProcessRow(graph, DecodeRow(encoding, raw))
       /\ latest' = NoteAccepted(latest, DecodeRow(encoding, raw))
       /\ lastRow' = DecodeRow(encoding, raw)
  /\ before' = graph
  /\ pos' = pos + 1
  /\ UNCHANGED <<pc, encoding, queryVars>>

\* Lines 70-75: the decoder fails on the next row (the header included).  The
\* last encoding re-raises; any other moves on to the next encoding, and the
\* loop of line 22 opens the file again.  graph is not touched.
LoadDecodeError ==
  /\ pc \in {"open", "rows"}
  /\ \E raw \in RawAt(IF pc = "open" THEN HeaderChoices ELSE RowChoices) :
       /\ ~RowDecodes(encoding, raw)
       /\ file' = Reveal(raw)
  /\ IF encoding = Len(encodings_to_try)
       THEN /\ pc' = "load_raised"
            /\ raised' = "UnicodeDecodeError"
            /\ UNCHANGED <<encoding, pos>>
       ELSE /\ encoding' = encoding + 1
            /\ pos' = 1
            /\ pc' = "open"
            /\ UNCHANGED raised
  /\ UNCHANGED <<graph, latest, lastRow, before, start_station, end_station,
                 entry, distances, predecessors, priority_queue, current, path,
                 result, built, settled, resettled, discarded>>

\* The reader is exhausted: break (line 63), then lines 82-87.
LoadEOF ==
  /\ pc = "rows"
  /\ pos > Len(file)
  /\ graph' = IF graph = EmptyDict THEN EmptyDict ELSE graph
  /\ pc' = "loaded"
  /\ UNCHANGED <<loadVars, queryVars>>

\* main, line 152: the returned graph becomes underground_graph; the locals of
\* load_underground_graph are gone.
LoadReturn ==
  /\ pc = "loaded"
  /\ pc' = "ready"
  /\ built' = graph
  /\ encoding' = 1
  /\ file' = <<>>
  /\ pos' = 1
  /\ latest' = EmptyDict
  /\ lastRow' = <<>>
  /\ before' = EmptyDict
  /\ UNCHANGED <<graph, start_station, end_station, entry, distances,
                 predecessors, priority_queue, current, path, result, raised,
                 settled, resettled, discarded>>

Load == \/ LoadFileNotFound \/ LoadEmptyFile \/ LoadHeader \/ LoadRow
        \/ LoadDecodeError \/ LoadEOF \/ LoadReturn

\* ------------------------------------------------------ dijkstra_shortest_path
\* Python compares strings by code point, a proper prefix first.
RECURSIVE StrLess(_, _)
StrLess(s, t) ==
  IF t = <<>> THEN FALSE
  ELSE IF s = <<>> THEN TRUE
  ELSE IF Head(s) # Head(t) THEN Head(s) < Head(t)
  ELSE StrLess(Tail(s), Tail(t))

\* (distance, station) tuples compare by distance, then by station name.
EntryLess(e, f) == e[1] < f[1] \/ (e[1] = f[1] /\ StrLess(e[2], f[2]))

\* A plausible slip: the frontier hands out its largest entry.
HeapPopLargest(q) == CHOOSE e \in q : \A f \in q \ {e} : EntryLess(f, e)

\* heapq.heappop: the smallest entry.  priority_queue is kept as the set of
\* its entries: line 114 pushes (d, n) only after lowering distances[n] to d,
\* so no entry is ever pushed twice.
HeapPop(q) == CHOOSE e \in q : \A f \in q \ {e} : EntryLess(e, f)

\* A plausible slip: the candidate is the edge weight alone.
NewDistanceEdgeOnly(current_distance, weight) == weight

\* Line 109
NewDistance(current_distance, weight) == current_distance + weight

\* Line 105
Stale(current_distance, best) == current_distance > best

\* A plausible slip: the membership test of line 94 is missing.
StartKnownUnchecked(g, s) == TRUE

\* Line 94
StartKnown(g, s) == s \in DOMAIN g

\* A plausible slip: distances[start_station] = 0 (line 98) is missing.
InitDistancesNoSource(g, s) == [station \in DOMAIN g |-> INF]

\* Lines 97-98
InitDistances(g, s) ==
  [station \in (DOMAIN g) \cup {s} |-> IF station = s THEN 0 ELSE INF]

\* The neighbours whose distance the loop of lines 108-114 lowers.
Improved(g, dist, cd, cur) ==
  {n \in DOMAIN g[cur] : NewDistance(cd, g[cur][n]) < dist[n]}

\* Line 113 over the loop
RelaxPredecessors(g, dist, pred, cd, cur) ==
  [v \in (DOMAIN pred) \cup Improved(g, dist, cd, cur) |->
     IF v \in Improved(g, dist, cd, cur) THEN cur ELSE pred[v]]

\* Line 112 over the loop
RelaxDistances(g, dist, cd, cur) ==
  [v \in DOMAIN dist |->
     IF v \in Improved(g, dist, cd, cur) THEN NewDistance(cd, g[cur][v])
     ELSE dist[v]]

\* The state a call starts from.
FreshCall(s, e, how) ==
  /\ start_station' = s
  /\ end_station' = e
  /\ entry' = how
  /\ current' = <<>>
  /\ path' = <<>>
  /\ result' = NoResult
  /\ settled' = EmptyDict
  /\ resettled' = FALSE
  /\ discarded' = FALSE

\* Lines 94-100
DijkstraStart(s) ==
  IF StartKnown(graph, s)
    THEN /\ distances' = InitDistances(graph, s)
         /\ predecessors' = EmptyDict
         /\ priority_queue' = {<<0, s>>}
         /\ raised' = "none"
         /\ pc' = "dijkstra"
    ELSE /\ distances' = EmptyDict
         /\ predecessors' = EmptyDict
         /\ priority_queue' = {}
         /\ raised' = "ValueError"
         /\ pc' = "raised"

Callable == pc \in {"ready", "done", "raised"}

Names == (DOMAIN graph) \cup {Unknown}

\* A call of dijkstra_shortest_path(graph, s) by the caller.
CallDijkstra ==
  /\ Callable
  /\ \E s \in Names :
       /\ FreshCall(s, <<>>, "dijkstra_shortest_path")
       /\ DijkstraStart(s)
  /\ UNCHANGED <<graph, loadVars, built>>

\* Lines 102-114: one iteration of the while loop.
DijkstraIterate ==
  /\ pc = "dijkstra"
  /\ priority_queue # {}
  /\ LET top              == HeapPop(priority_queue)
         current_distance == top[1]
         current_station  == top[2]
         rest             == priority_queue \ {top}
     IN /\ current_distance >= 0 - MaxDive
        /\ IF Stale(current_distance, distances[current_station])
             THEN /\ priority_queue' = rest
                  /\ discarded' = TRUE
                  /\ UNCHANGED <<graph, distances, predecessors, pc, raised,
                                 settled, resettled>>
             ELSE LET g == DefaultGet(graph, current_station) IN
               /\ graph' = g
               /\ UNCHANGED discarded
               /\ settled' = IF current_station \in DOMAIN settled THEN settled
                             ELSE Put(settled, current_station, current_distance)
               /\ resettled' = (resettled \/ current_station \in DOMAIN settled)
               /\ IF DOMAIN g[current_station] \subseteq DOMAIN distances
                    THEN /\ distances' = RelaxDistances(g, distances,
                                           current_distance, current_station)
                         /\ predecessors' = RelaxPredecessors(g, distances,
                              predecessors, current_distance, current_station)
                         /\ priority_queue' = rest \cup
                              { <<NewDistance(current_distance, g[current_station][n]), n>> :
                                  n \in Improved(g, distances, current_distance,
                                                 current_station) }
                         /\ UNCHANGED <<pc, raised>>
                    ELSE \* distances[neighbor] raises KeyError
                         /\ pc' = "raised"
                         /\ raised' = "KeyError"
                         /\ UNCHANGED <<distances, predecessors, priority_queue>>
  /\ UNCHANGED <<loadVars, start_station, end_station, entry, current, path,
                 result, built>>

\* ---------------------------------------------------------- find_shortest_path
\* A plausible slip: only the end station is looked up.
EndpointsKnownEndOnly(g, s, e) == e \in DOMAIN g

\* Line 123
EndpointsKnown(g, s, e) == s \in DOMAIN g /\ e \in DOMAIN g

\* Lines 123-126: a call of find_shortest_path(graph, s, e) by the caller.
CallFind ==
  /\ Callable
  /\ \E s \in Names, e \in Names :
       /\ FreshCall(s, e, "find_shortest_path")
       /\ IF EndpointsKnown(graph, s, e)
            THEN DijkstraStart(s)
            ELSE /\ pc' = "done"
                 /\ raised' = "none"
                 /\ distances' = EmptyDict
                 /\ predecessors' = EmptyDict
                 /\ priority_queue' = {}
  /\ UNCHANGED <<graph, loadVars, built>>

\* distances.get(end_station, float('inf')), line 127
TotalTime(dist, e) == IF e \in DOMAIN dist THEN dist[e] ELSE INF

\* Line 116, and for find_shortest_path lines 127-132.
DijkstraReturn ==
  /\ pc = "dijkstra"
  /\ priority_queue = {}
  /\ IF entry = "find_shortest_path" /\ TotalTime(distances, end_station) # INF
       THEN /\ pc' = "walk"
            /\ current' = end_station
       ELSE /\ pc' = "done"
            /\ UNCHANGED current
  /\ UNCHANGED <<graph, loadVars, start_station, end_station, entry, distances,
                 predecessors, priority_queue, path, result, raised, built,
                 settled, resettled, discarded>>

\* A plausible slip: path.insert(0, start_station) (line 140) is missing.
FinishPathNoStart(p, s) == p

\* Line 140
FinishPath(p, s) == <<s>> \o p

\* Lines 134-142: one iteration of the walk back, or the return after it.
Walk ==
  /\ pc = "walk"
  /\ IF current # start_station
       THEN IF current \notin DOMAIN predecessors
              THEN /\ result' = NoResult
                   /\ pc' = "done"
                   /\ UNCHANGED <<path, current>>
              ELSE /\ path' = <<current>> \o path
                   /\ current' = predecessors[current]
                   /\ UNCHANGED <<result, pc>>
       ELSE /\ result' = [path |-> FinishPath(path, start_station),
                          total |-> TotalTime(distances, end_station)]
            /\ path' = FinishPath(path, start_station)
            /\ pc' = "done"
            /\ UNCHANGED current
  /\ UNCHANGED <<graph, loadVars, start_station, end_station, entry, distances,
                 predecessors, priority_queue, raised, built, settled, resettled,
                 discarded>>

Query == CallDijkstra \/ DijkstraIterate \/ CallFind \/ DijkstraReturn \/ Walk

Next == Load \/ Query

Spec == Init /\ [][Next]_vars

\* The program is one thread: a loop of dijkstra_shortest_path that can take
\* its next iteration takes it, and a loop that has ended returns.
FairSpec == Spec /\ WF_vars(DijkstraIterate) /\ WF_vars(DijkstraReturn)

\* ======================================================================
\* Properties
\* ======================================================================
Range(q) == {q[i] : i \in 1..Len(q)}

Last(q) == q[Len(q)]

\* The paths of g from s without a repeated station, of at most k edges.
RECURSIVE PathsUpTo(_, _, _)
PathsUpTo(g, s, k) ==
  IF k = 0 THEN {<<s>>}
  ELSE LET P == PathsUpTo(g, s, k - 1) IN
    P \cup UNION { {Append(q, n) : n \in (DOMAIN g[Last(q)]) \ Range(q)} : q \in P }

SimplePaths(g, s) == PathsUpTo(g, s, Cardinality(DOMAIN g) - 1)

RECURSIVE PathCost(_, _)
PathCost(g, q) ==
  IF Len(q) <= 1 THEN 0
  ELSE g[q[1]][q[2]] + PathCost(g, Tail(q))

Connected(g, s, t) == \E q \in SimplePaths(g, s) : Last(q) = t

\* The least cost of a path from s to t.  With weights > 0 a path that repeats
\* a station costs more than the path without the repetition, so the least
\* cost over all paths is the least cost over the simple ones.
MinCost(g, s, t) ==
  LET costs == {PathCost(g, q) : q \in {r \in SimplePaths(g, s) : Last(r) = t}}
  IN CHOOSE c \in costs : \A d \in costs : c <= d

Positive(g) == \A a \in DOMAIN g : \A b \in DOMAIN g[a] : g[a][b] > 0

Returned == pc = "done" /\ entry = "find_shortest_path"

Loading == pc \in {"open", "rows", "loaded"}

sA == <<65>>
sB == <<66>>
sC == <<67>>

\* C1: on a graph with weights > 0, for connected stations start and end of
\* the graph, find_shortest_path returns as total time the least cost of a
\* path from start to end.
C1_MinimumTime ==
  (Returned /\ Positive(graph)
     /\ start_station \in DOMAIN graph /\ end_station \in DOMAIN graph
     /\ Connected(graph, start_station, end_station))
  => result.total = MinCost(graph, start_station, end_station)

\* A-B 3, A-C 1, C-B 1: A to B goes through C and costs 2, not 3.
C1_Witness ==
  /\ Returned /\ Positive(graph)
  /\ start_station = sA /\ end_station = sB
  /\ sB \in DOMAIN graph[sA] /\ graph[sA][sB] = 3
  /\ result = [path |-> <<sA, sC, sB>>, total |-> 2]

\* C2: for a destination that can be reached, the returned path starts at the
\* start station, ends at the end station, steps only along edges of the
\* graph, and its edge weights add up to the returned total time.
C2_PathAgrees ==
  /\ (Returned /\ start_station \in DOMAIN graph /\ end_station \in DOMAIN graph
        /\ Connected(graph, start_station, end_station))
     => result.path # <<>>
  /\ (Returned /\ result.path # <<>>)
     => /\ result.path[1] = start_station
        /\ Last(result.path) = end_station
        /\ \A i \in 1..(Len(result.path) - 1) :
             /\ result.path[i] \in DOMAIN graph
             /\ result.path[i + 1] \in DOMAIN graph[result.path[i]]
        /\ PathCost(graph, result.path) = result.total
        /\ result.total = distances[end_station]

C2_Witness ==
  /\ Returned
  /\ Len(result.path) >= 3
  /\ result.total = PathCost(graph, result.path)
  /\ result.total > 0

\* The malformed rows of C3: fewer than 4 fields, a station that trims to
\* empty, or a time that is not a positive integer.
Malformed(row) ==
  \/ Len(row) < 4
  \/ Strip(row[2]) = <<>>
  \/ Strip(row[3]) = <<>>
  \/ ~ParseInt(row[4]).ok
  \/ ParseInt(row[4]).value <= 0

\* C3: a malformed row adds no station and no edge, and every weight of the
\* graph is > 0.
C3_MalformedSkipped ==
  Loading =>
    /\ (lastRow # <<>> /\ Malformed(lastRow)) => graph = before
    /\ Positive(graph)

\* C4: find_shortest_path returns the empty path and cost 0, and raises
\* nothing, when start or end is no station of the graph or end cannot be
\* reached from start.
C4_NoPath ==
  (entry = "find_shortest_path" /\ pc \in {"done", "raised"}
     /\ (\/ start_station \notin DOMAIN built
         \/ end_station \notin DOMAIN built
         \/ ~Connected(built, start_station, end_station)))
  => (pc = "done" /\ raised = "none" /\ result = NoResult)

C4_Witness ==
  /\ Returned
  /\ start_station \in DOMAIN graph /\ end_station \in DOMAIN graph
  /\ ~Connected(graph, start_station, end_station)
  /\ result = NoResult

\* C5: while and after the rows are loaded the graph is symmetric, and the
\* weight of a pair is the cost of the latest accepted record that names the
\* pair, in either order.
C5_SymmetricLastWins ==
  Loading =>
    /\ \A a \in DOMAIN graph : \A b \in DOMAIN graph[a] :
         /\ b \in DOMAIN graph
         /\ a \in DOMAIN graph[b]
         /\ graph[a][b] = graph[b][a]
         /\ {a, b} \in DOMAIN latest
         /\ graph[a][b] = latest[{a, b}]
    /\ \A pair \in DOMAIN latest : \A a \in pair : \A b \in pair :
         (pair = {a, b}) => (a \in DOMAIN graph /\ b \in DOMAIN graph[a])

\* A-B 3, then " B"-"A " 1: both directions hold 1.
C5_Witness ==
  /\ pc = "loaded"
  /\ Len(file) = 3
  /\ file[2] = <<fL, fA, fB, t3>>
  /\ file[3] = <<fL, fBpad, fApad, t1>>
  /\ graph[sA][sB] = 1 /\ graph[sB][sA] = 1

\* C6: find_shortest_path(graph, X, X) returns ([X], 0) for a station X of
\* the graph.
C6_SameStation ==
  (entry = "find_shortest_path" /\ pc \in {"done", "raised"}
     /\ start_station = end_station /\ start_station \in DOMAIN built)
  => (pc = "done" /\ result = [path |-> <<start_station>>, total |-> 0])

C6_Witness ==
  /\ Returned
  /\ start_station = end_station
  /\ start_station \in DOMAIN graph
  /\ DOMAIN graph[start_station] # {}
  /\ result = [path |-> <<start_station>>, total |-> 0]

\* The graph read from the whole file in one encoding.
RECURSIVE GraphOfRows(_, _, _)
GraphOfRows(enc, rows, g) ==
  IF rows = <<>> THEN g
  ELSE GraphOfRows(enc, Tail(rows), ProcessRow(g, DecodeRow(enc, Head(rows))))

\* C7: after a fallback to the next encoding the returned graph is the graph
\* of the whole file read in the encoding that succeeded.
C7_FallbackGraphClean ==
  (pc = "loaded" /\ encoding > 1)
  => graph = GraphOfRows(encoding, Tail(file), EmptyDict)

\* C8: a call of find_shortest_path or dijkstra_shortest_path, whatever the
\* station names given, leaves the graph as load_underground_graph returned it.
C8_GraphUnchanged ==
  (pc \in {"ready", "dijkstra", "walk", "done", "raised"}) => graph = built

C8_Witness ==
  /\ pc = "raised"
  /\ entry = "dijkstra_shortest_path"
  /\ start_station = Unknown
  /\ graph # EmptyDict
  /\ graph = built

C10_FirstPopFinal ==
  (pc \in {"dijkstra", "walk", "done"} /\ Positive(graph))
  => /\ ~resettled
     /\ \A s \in DOMAIN settled :
          /\ distances[s] = settled[s]
          /\ settled[s] = MinCost(graph, start_station, s)

\* A-B 3, A-C 1, C-B 1 from A: the entry (3, B) is popped after B was
\* settled at 2, and dropped.
C10_Witness ==
  /\ pc = "dijkstra" /\ Positive(graph)
  /\ discarded
  /\ sB \in DOMAIN settled /\ settled[sB] = 2
  /\ priority_queue = {}
====
